---- MODULE Spec2Model ----
(***************************************************************************)
(* CBCT-Viz-Platform frontend: the App session state machine (App.tsx),   *)
(* the SliceViewer component (SliceViewer, in CBCTViewer.tsx), the        *)
(* window/level transform of its render effect and the volume statistics  *)
(* sampler of PreSegmentationMeasurements.tsx.                             *)
(***************************************************************************)
EXTENDS Integers, Sequences, FiniteSets, TLC

VARIABLES
    state,           \* App: the AppState object of useState (App.tsx:50)
    showMPR,         \* App: useState(false)
    viewMode,        \* App: 'raw' | 'segmented'
    preSegViewMode,  \* App: '2d' | '3d'
    mprSlices,       \* App: MPRSlicePositions | undefined
    views,           \* the mounted SliceViewer instances, by group and axis
    net,             \* App: requests in flight (upload, volume, segmentation)
    nextScan,        \* the scan_id the backend hands out next
    touched,         \* history: the axes whose slider moved since the scan loaded
    si,              \* one call of handleSliceChange: its arguments and result
    sv,              \* one SliceViewer instance: props and useState values
    fetches,         \* that instance's slice requests in flight
    win,             \* one pixel of the render effect: inputs and outputs
    stat,            \* one evaluation of volumeStats: inputs and result
    cfg,             \* the calls of getAdaptiveViewConfig and what they returned
    mesh,            \* one SegmentMesh instance: props and what it renders
    meas,            \* MeasurementTools: props, useState values, measurements
    fu,              \* FileUpload: useState values and the onFileSelected calls
    wl               \* the windowing useState values of three slice views

appVars == <<state, showMPR, viewMode, preSegViewMode, mprSlices, views, net,
             nextScan, touched>>

compVars == <<si, sv, fetches, win, stat, cfg, mesh, meas, fu, wl>>

vars == <<state, showMPR, viewMode, preSegViewMode, mprSlices, views, net,
          nextScan, touched, si, sv, fetches, win, stat, cfg, mesh, meas,
          fu, wl>>

----------------------------------------------------------------------------
(* Bounds of the model *)

MaxDim == 2        \* the largest voxel count of an axis
MaxScans == 2      \* uploads in one run
MaxSegs == 1       \* segments a segmentation returns at most
MaxFetches == 3    \* slice requests one SliceViewer instance issues
MaxVal == 3        \* raw intensities, centers and widths are in -MaxVal..MaxVal
MaxStatDim == 3    \* voxels along an axis of the statistics sampler's volume
MaxConfigCalls == 3  \* calls of getAdaptiveViewConfig in one run
MaxVertices == 3   \* vertices of a segment mesh
MaxMeasurements == 1  \* entries of the measurements list
MaxFiles == 2      \* drop and file-input events of one FileUpload

----------------------------------------------------------------------------
(* Values *)

Axes == {"axial", "coronal", "sagittal"}
AxisOrder == <<"axial", "coronal", "sagittal">>
Groups == {"preseg", "mpr"}

NoMeta == <<>>
\* metadata.dimensions of an upload response: each axis is 1 or MaxDim voxels
DimChoices == {<<a, b, c>> : a \in {1, MaxDim}, b \in {1, MaxDim}, c \in {1, MaxDim}}

\* dimensions[i], 0-based as in the source
Dim(dimensions, i) == dimensions[i + 1]

\* the index of metadata.dimensions an axis reads (App.tsx:96-98,
\* CBCTViewer.tsx:840-842)
AxisDim(axis) ==
    IF axis = "axial" THEN 2 ELSE IF axis = "coronal" THEN 1 ELSE 0

AxisSize(dimensions, axis) == Dim(dimensions, AxisDim(axis))

InitialState ==
    [scanId |-> 0, metadata |-> NoMeta, isUploading |-> FALSE,
     isSegmenting |-> FALSE, isLoadingVolume |-> FALSE, volumeData |-> 0,
     segments |-> {}, meshes |-> {}, visibleSegments |-> <<>>]

UndefinedMpr ==
    [defined |-> FALSE, axial |-> 0, coronal |-> 0, sagittal |-> 0,
     dimensions |-> NoMeta]

Unmounted ==
    [mounted |-> FALSE, idx |-> [a \in Axes |-> 0], recentre |-> {}]

----------------------------------------------------------------------------
(* App.handleSliceChange *)

\* prev?.field ?? Math.floor(dimensions[i] / 2)
PrevOrCentre(prev, metadata, axis) ==
    IF prev.defined THEN prev[axis] ELSE AxisSize(metadata, axis) \div 2

MutHandleSliceChange_AllAxes(prev, metadata, axis, index) ==
    IF metadata = NoMeta THEN prev
    ELSE [defined |-> TRUE, axial |-> index, coronal |-> index,
          sagittal |-> index, dimensions |-> metadata]

HandleSliceChange(prev, metadata, axis, index) ==
    IF metadata = NoMeta THEN prev
    ELSE [defined |-> TRUE,
          axial |-> IF axis = "axial" THEN index
                    ELSE PrevOrCentre(prev, metadata, "axial"),
          coronal |-> IF axis = "coronal" THEN index
                      ELSE PrevOrCentre(prev, metadata, "coronal"),
          sagittal |-> IF axis = "sagittal" THEN index
                       ELSE PrevOrCentre(prev, metadata, "sagittal"),
          dimensions |-> metadata]

\* the calls of one effects pass, applied in order: calls is a sequence of
\* <<axis, index>>
RECURSIVE ApplyCalls(_, _, _)
ApplyCalls(prev, metadata, calls) ==
    IF calls = <<>> THEN prev
    ELSE ApplyCalls(HandleSliceChange(prev, metadata, calls[1][1], calls[1][2]),
                    metadata, Tail(calls))

----------------------------------------------------------------------------
(* SliceViewer: index state and effects *)

\* maxSliceIndex (CBCTViewer.tsx:840)
MaxSliceIndex(dimensions, axis) == AxisSize(dimensions, axis) - 1

\* useState(Math.floor(dimensions[0] / 2)) (CBCTViewer.tsx:834)
InitialSliceIndex(dimensions) == Dim(dimensions, 0) \div 2

\* the value the maxSliceIndex effect sets (CBCTViewer.tsx:844-846)
CentreIndex(dimensions, axis) == MaxSliceIndex(dimensions, axis) \div 2

\* which groups of SliceViewer the render of App mounts
PreSegShown(s, mode) ==
    /\ s.volumeData # 0
    /\ s.segments = {}
    /\ mode = "2d"
    /\ s.scanId # 0
    /\ s.metadata # NoMeta

MprPanelShown(s, mpr) == mpr /\ s.scanId # 0 /\ s.metadata # NoMeta

Shown(g, s, mode, mpr) ==
    IF g = "preseg" THEN PreSegShown(s, mode) ELSE MprPanelShown(s, mpr)

\* one group after a commit of App with state s (old state o)
ViewAfterCommit(v, g, o, s, mode, mpr) ==
    IF ~Shown(g, s, mode, mpr) THEN Unmounted
    ELSE IF ~v.mounted THEN
        [mounted |-> TRUE,
         idx |-> [a \in Axes |-> InitialSliceIndex(s.metadata)],
         recentre |-> {a \in Axes :
                         CentreIndex(s.metadata, a) # InitialSliceIndex(s.metadata)}]
    ELSE
        [v EXCEPT !.recentre =
            v.recentre \cup
            {a \in Axes :
                /\ MaxSliceIndex(s.metadata, a) # MaxSliceIndex(o.metadata, a)
                /\ CentreIndex(s.metadata, a) # v.idx[a]}]

\* the onSliceChange calls the fetch effect makes in that commit: at mount,
\* and when scanId or onSliceChange (handleSliceChange, keyed on
\* state.metadata) changed
GroupCalls(v, g, o, s, mode, mpr) ==
    IF ~Shown(g, s, mode, mpr) THEN <<>>
    ELSE IF ~v.mounted THEN
        [i \in 1..3 |-> <<AxisOrder[i], InitialSliceIndex(s.metadata)>>]
    ELSE IF s.scanId # o.scanId \/ s.metadata # o.metadata THEN
        [i \in 1..3 |-> <<AxisOrder[i], v.idx[AxisOrder[i]]>>]
    ELSE <<>>

CommitCalls(o, s, mode, mpr) ==
    GroupCalls(views["preseg"], "preseg", o, s, mode, mpr)
        \o GroupCalls(views["mpr"], "mpr", o, s, mode, mpr)

\* a render of App with new state s, view mode and MPR toggle, and the
\* effects of the slice views it mounts, keeps or unmounts
Commit(s, mode, mpr) ==
    /\ state' = s
    /\ preSegViewMode' = mode
    /\ showMPR' = mpr
    /\ views' = [g \in Groups |->
                    ViewAfterCommit(views[g], g, state, s, mode, mpr)]
    /\ mprSlices' = ApplyCalls(mprSlices, s.metadata,
                               CommitCalls(state, s, mode, mpr))

----------------------------------------------------------------------------
(* JavaScript numbers: a finite rational num/den (den > 0), +Infinity,      *)
(* -Infinity or NaN                                                         *)

Fin(n, d) == [kind |-> "fin", num |-> n, den |-> d]
PosInf == [kind |-> "inf", num |-> 0, den |-> 1]
NegInf == [kind |-> "ninf", num |-> 0, den |-> 1]
NaN == [kind |-> "nan", num |-> 0, den |-> 1]

\* n / d
JsDiv(n, d) ==
    IF d = 0 THEN (IF n > 0 THEN PosInf ELSE IF n < 0 THEN NegInf ELSE NaN)
    ELSE IF d > 0 THEN Fin(n, d)
    ELSE Fin(-n, -d)

\* x * k for an integer k > 0
JsTimes(x, k) == IF x.kind = "fin" THEN Fin(x.num * k, x.den) ELSE x

\* Math.min(k, x) for an integer k
MathMin(k, x) ==
    IF x.kind = "nan" THEN NaN
    ELSE IF x.kind = "inf" THEN Fin(k, 1)
    ELSE IF x.kind = "ninf" THEN NegInf
    ELSE IF x.num >= k * x.den THEN Fin(k, 1) ELSE x

\* Math.max(k, x) for an integer k
MathMax(k, x) ==
    IF x.kind = "nan" THEN NaN
    ELSE IF x.kind = "ninf" THEN Fin(k, 1)
    ELSE IF x.kind = "inf" THEN PosInf
    ELSE IF x.num <= k * x.den THEN Fin(k, 1) ELSE x

\* the store into ImageData.data, a Uint8ClampedArray: NaN is 0, the value
\* is clamped to [0, 255] and rounded to the nearest integer, ties to even
ToUint8Clamped(x) ==
    IF x.kind = "nan" \/ x.kind = "ninf" THEN 0
    ELSE IF x.kind = "inf" THEN 255
    ELSE IF x.num <= 0 THEN 0
    ELSE IF x.num >= 255 * x.den THEN 255
    ELSE LET q == x.num \div x.den
             r == x.num % x.den
         IN IF 2 * r < x.den THEN q
            ELSE IF 2 * r > x.den THEN q + 1
            ELSE IF q % 2 = 0 THEN q ELSE q + 1

----------------------------------------------------------------------------
(* SliceViewer render effect: the window/level transformation of one pixel *)

MutMinWindow2_NoHalf(windowCenter, windowWidth) ==
    2 * windowCenter - 2 * windowWidth

\* twice minWindow = windowCenter - windowWidth / 2
MinWindow2(windowCenter, windowWidth) == 2 * windowCenter - windowWidth

\* ((value - minWindow) / windowWidth) * 255
RawIntensity(value, windowCenter, windowWidth) ==
    JsTimes(JsDiv(2 * value - MinWindow2(windowCenter, windowWidth),
                  2 * windowWidth), 255)

MutClampIntensity_NoUpper(x) == MathMax(0, x)

\* Math.max(0, Math.min(255, intensity))
ClampIntensity(x) == MathMax(0, MathMin(255, x))

\* the value of `intensity` that is written to the three colour channels
WindowIntensity(value, windowCenter, windowWidth) ==
    ClampIntensity(RawIntensity(value, windowCenter, windowWidth))

WinIdle ==
    [called |-> FALSE, value |-> 0, windowCenter |-> 0, windowWidth |-> 1,
     intensity |-> Fin(0, 1), byte |-> 0]

\* the pixel value and window state the render effect may be given
WinInputs ==
    {[called |-> FALSE, value |-> v, windowCenter |-> c, windowWidth |-> w,
      intensity |-> Fin(0, 1), byte |-> 0] :
        v \in -MaxVal..MaxVal, c \in -MaxVal..MaxVal, w \in -MaxVal..MaxVal}

\* one iteration of the pixel loop
RenderPixel ==
    /\ ~win.called
    /\ win' = [win EXCEPT
                 !.called = TRUE,
                 !.intensity = WindowIntensity(win.value, win.windowCenter,
                                               win.windowWidth),
                 !.byte = ToUint8Clamped(
                              WindowIntensity(win.value, win.windowCenter,
                                              win.windowWidth))]
    /\ UNCHANGED <<appVars, si, sv, fetches, stat, cfg, mesh, meas, fu, wl>>

----------------------------------------------------------------------------
(* PreSegmentationMeasurements: volumeStats *)

StatValues == {-1, 2}

\* volumeData[z]?.[y]?.[x] !== undefined
VoxelDefined(volumeData, z, y, x) ==
    /\ z < Len(volumeData)
    /\ y < Len(volumeData[z + 1])
    /\ x < Len(volumeData[z + 1][y + 1])

Voxel(volumeData, z, y, x) == volumeData[z + 1][y + 1][x + 1]

\* for (i = 0; i < n; i += 2)
Stride2(n) == {i \in 0..(n - 1) : i % 2 = 0}

\* the <<z, y, x>> the loops visit whose value is not undefined;
\* [depth, height, width] = metadata.dimensions
Sampled(volumeData, dimensions) ==
    {p \in Stride2(Dim(dimensions, 0)) \X Stride2(Dim(dimensions, 1))
            \X Stride2(Dim(dimensions, 2)) :
        VoxelDefined(volumeData, p[1], p[2], p[3])}

\* the value the loop reads at a sampled position
SampleValue(volumeData, p) == Voxel(volumeData, p[1], p[2], p[3])

RECURSIVE SumOver(_, _)
SumOver(volumeData, ps) ==
    IF ps = {} THEN 0
    ELSE LET p == CHOOSE q \in ps : TRUE
         IN SampleValue(volumeData, p) + SumOver(volumeData, ps \ {p})

RECURSIVE MinOver(_, _)
MinOver(volumeData, ps) ==
    IF ps = {} THEN PosInf
    ELSE LET p == CHOOSE q \in ps : TRUE
         IN MathMin(SampleValue(volumeData, p), MinOver(volumeData, ps \ {p}))

RECURSIVE MaxOver(_, _)
MaxOver(volumeData, ps) ==
    IF ps = {} THEN NegInf
    ELSE LET p == CHOOSE q \in ps : TRUE
         IN MathMax(SampleValue(volumeData, p), MaxOver(volumeData, ps \ {p}))

\* the sum of (value * count - sum)^2: count^2 times varianceSum
RECURSIVE VarianceNum(_, _, _, _)
VarianceNum(volumeData, ps, sum, count) ==
    IF ps = {} THEN 0
    ELSE LET p == CHOOSE q \in ps : TRUE
             dv == SampleValue(volumeData, p) * count - sum
         IN dv * dv + VarianceNum(volumeData, ps \ {p}, sum, count)

MutMeanOf_CountPlusOne(sum, count) == JsDiv(sum, count + 1)

\* mean = sum / count
MeanOf(sum, count) == JsDiv(sum, count)

\* Math.sqrt(x): the result is the non-negative root of radicand, or NaN
JsSqrt(x) ==
    IF x.kind = "nan" \/ x.kind = "ninf" THEN [kind |-> "nan", radicand |-> NaN]
    ELSE IF x.kind = "fin" /\ x.num < 0 THEN [kind |-> "nan", radicand |-> NaN]
    ELSE [kind |-> x.kind, radicand |-> x]

NullStats ==
    [isNull |-> TRUE, min |-> NaN, max |-> NaN, mean |-> NaN,
     stdDev |-> JsSqrt(NaN), sampleCount |-> 0]

\* the useMemo body; volumeData is <<>> for null/undefined and for []
VolumeStats(volumeData, dimensions) ==
    IF Len(volumeData) = 0 THEN NullStats
    ELSE LET ps == Sampled(volumeData, dimensions)
             count == Cardinality(ps)
             sum == SumOver(volumeData, ps)
         IN [isNull |-> FALSE,
             min |-> MinOver(volumeData, ps),
             max |-> MaxOver(volumeData, ps),
             mean |-> MeanOf(sum, count),
             stdDev |-> JsSqrt(JsDiv(VarianceNum(volumeData, ps, sum, count),
                                     count * count * count)),
             sampleCount |-> count]

\* the rows of a volume: sequences of at most MaxStatDim intensities
StatRows == UNION {[1..n -> StatValues] : n \in 0..MaxStatDim}

\* a volume of nz slices of ny rows: rowA in slice 0, rowB in the others
StatVolume(nz, ny, rowA, rowB) ==
    [z \in 1..nz |-> [y \in 1..ny |-> IF z = 1 THEN rowA ELSE rowB]]

StatDims ==
    {<<a, b, c>> : a \in {1, MaxStatDim}, b \in {1, MaxStatDim},
                   c \in {1, MaxStatDim}}

StatIdle ==
    [called |-> FALSE, volumeData |-> <<>>, dimensions |-> <<1, 1, 1>>,
     result |-> NullStats]

\* the props PreSegmentationMeasurements may be given
StatInputs ==
    {[called |-> FALSE, volumeData |-> StatVolume(nz, ny, rowA, rowB),
      dimensions |-> d, result |-> NullStats] :
        nz \in 0..MaxStatDim, ny \in 0..MaxStatDim, rowA \in StatRows,
        rowB \in StatRows, d \in StatDims}

\* the useMemo of volumeStats runs
ComputeStats ==
    /\ ~stat.called
    /\ stat' = [stat EXCEPT
                  !.called = TRUE,
                  !.result = VolumeStats(stat.volumeData, stat.dimensions)]
    /\ UNCHANGED <<appVars, si, sv, fetches, win, cfg, mesh, meas, fu, wl>>

----------------------------------------------------------------------------
(* One call of App.handleSliceChange on any prior position *)

SiIdle ==
    [called |-> FALSE, prev |-> UndefinedMpr, metadata |-> NoMeta,
     axis |-> "axial", index |-> 0, next |-> UndefinedMpr]

PriorPositions ==
    {UndefinedMpr} \cup
    {[defined |-> TRUE, axial |-> a, coronal |-> c, sagittal |-> g,
      dimensions |-> d] :
        a \in 0..MaxDim, c \in 0..MaxDim, g \in 0..MaxDim, d \in DimChoices}

\* the arguments and closure handleSliceChange may be called with
SiInputs ==
    {[called |-> FALSE, prev |-> prev, metadata |-> m, axis |-> a,
      index |-> i, next |-> UndefinedMpr] :
        prev \in PriorPositions, m \in DimChoices \cup {NoMeta}, a \in Axes,
        i \in -1..(MaxDim + 1)}

SetIndexCall ==
    /\ ~si.called
    /\ si' = [si EXCEPT
                !.called = TRUE,
                !.next = HandleSliceChange(si.prev, si.metadata, si.axis,
                                           si.index)]
    /\ UNCHANGED <<appVars, sv, fetches, win, stat, cfg, mesh, meas, fu, wl>>

----------------------------------------------------------------------------
(* One SliceViewer instance and its slice requests *)

NoSliceData == -1

SvIdle ==
    [mounted |-> FALSE, axis |-> "axial", dimensions |-> <<1, 1, 1>>,
     sliceIndex |-> 0, sliceData |-> NoSliceData, recentre |-> FALSE,
     issued |-> 0]

\* after the first render and its effects: the fetch effect has requested
\* the initial index, the maxSliceIndex effect has called setSliceIndex
SvMounted(axis, dimensions) ==
    [mounted |-> TRUE, axis |-> axis, dimensions |-> dimensions,
     sliceIndex |-> InitialSliceIndex(dimensions),
     sliceData |-> NoSliceData,
     recentre |-> CentreIndex(dimensions, axis) # InitialSliceIndex(dimensions),
     issued |-> 1]

\* the render after setSliceIndex(Math.floor(maxSliceIndex / 2)): the fetch
\* effect runs for the new index
SvRecentre ==
    /\ sv.mounted
    /\ sv.recentre
    /\ sv' = [sv EXCEPT !.sliceIndex = CentreIndex(sv.dimensions, sv.axis),
                        !.recentre = FALSE, !.issued = @ + 1]
    /\ fetches' = fetches \cup
          {[id |-> sv.issued + 1,
            index |-> CentreIndex(sv.dimensions, sv.axis)]}
    /\ UNCHANGED <<appVars, si, win, stat, cfg, mesh, meas, fu, wl>>

\* the slice slider's onChange, then the fetch effect
SvSliderMove ==
    \E n \in 0..MaxSliceIndex(sv.dimensions, sv.axis) :
        /\ sv.mounted
        /\ n # sv.sliceIndex
        /\ sv.issued < MaxFetches
        /\ sv' = [sv EXCEPT !.sliceIndex = n, !.recentre = FALSE,
                            !.issued = @ + 1]
        /\ fetches' = fetches \cup {[id |-> sv.issued + 1, index |-> n]}
        /\ UNCHANGED <<appVars, si, win, stat, cfg, mesh, meas, fu, wl>>

\* the data a resolved request carries: the slice of the index it asked for
DataOfResponse(r) == r.index

\* a request resolves with slice data: setSliceData(data.data)
SvResponse ==
    \E r \in fetches :
        /\ fetches' = fetches \ {r}
        /\ sv' = [sv EXCEPT !.sliceData = DataOfResponse(r)]
        /\ UNCHANGED <<appVars, si, win, stat, cfg, mesh, meas, fu, wl>>

\* a request fails (HTTP error, exception, invalid data): setSliceData(null)
SvResponseFails ==
    \E r \in fetches :
        /\ fetches' = fetches \ {r}
        /\ sv' = [sv EXCEPT !.sliceData = NoSliceData]
        /\ UNCHANGED <<appVars, si, win, stat, cfg, mesh, meas, fu, wl>>

\* what the canvas area of the view renders: the canvas when sliceData is
\* set, the "Loading slice data..." placeholder otherwise
SliceDisplay(s) == IF s.sliceData # NoSliceData THEN "canvas" ELSE "loading"

----------------------------------------------------------------------------
(* adaptiveConfig: the view configuration derived from the scan dimensions *)

\* -x
JsNeg(x) ==
    IF x.kind = "fin" THEN Fin(-x.num, x.den)
    ELSE IF x.kind = "inf" THEN NegInf
    ELSE IF x.kind = "ninf" THEN PosInf
    ELSE NaN

\* x * 0.5
JsHalf(x) == IF x.kind = "fin" THEN Fin(x.num, 2 * x.den) ELSE x

\* Math.ceil(x) of a finite number
MathCeil(x) == -((-x.num) \div x.den)

ScanDimensions(width, height, depth) ==
    [width |-> width, height |-> height, depth |-> depth]

\* maxDim = Math.max(dimensions.width, dimensions.height, dimensions.depth)
LargestDim(dimensions) ==
    LET wh == IF dimensions.width >= dimensions.height
              THEN dimensions.width ELSE dimensions.height
    IN IF wh >= dimensions.depth THEN wh ELSE dimensions.depth

\* scaleFactor = maxDim / 128
ScaleFactor(dimensions) == JsDiv(LargestDim(dimensions), 128)

MutCalculateCameraPosition_Offset(dimensions) ==
    LET distance == Fin(100 * LargestDim(dimensions) + 128, 128)
    IN <<distance, distance, distance>>

CalculateCameraPosition(dimensions) ==
    LET distance == JsTimes(ScaleFactor(dimensions), 100)
    IN <<distance, distance, distance>>

CalculateFOV(dimensions) ==
    IF LargestDim(dimensions) > 512 THEN 60
    ELSE IF LargestDim(dimensions) > 256 THEN 55
    ELSE IF LargestDim(dimensions) > 128 THEN 50
    ELSE 45

CalculateGridConfig(dimensions) ==
    [size |-> MathCeil(JsTimes(ScaleFactor(dimensions), 150)),
     cellSize |-> MathMax(1, ScaleFactor(dimensions))]

CalculateCameraLimits(dimensions) ==
    [min |-> MathMax(5, JsTimes(ScaleFactor(dimensions), 10)),
     max |-> MathMin(500, JsTimes(ScaleFactor(dimensions), 200))]

\* width * height * depth > limit, for voxel counts >= 0, without forming
\* the product of all three
VoxelCountExceeds(dimensions, limit) ==
    /\ dimensions.width * dimensions.height > 0
    /\ dimensions.depth > limit \div (dimensions.width * dimensions.height)

CalculateLightingIntensity(dimensions) ==
    IF VoxelCountExceeds(dimensions, 100000000)
    THEN [ambient |-> Fin(5, 10), directional |-> Fin(14, 10),
          point |-> Fin(7, 10)]
    ELSE IF VoxelCountExceeds(dimensions, 20000000)
    THEN [ambient |-> Fin(4, 10), directional |-> Fin(12, 10),
          point |-> Fin(6, 10)]
    ELSE [ambient |-> Fin(3, 10), directional |-> Fin(10, 10),
          point |-> Fin(5, 10)]

CalculateLightPositions(dimensions) ==
    LET baseDirectionalDist == JsTimes(ScaleFactor(dimensions), 10)
        basePointDist == JsTimes(ScaleFactor(dimensions), 50)
    IN [directional1 |-> <<baseDirectionalDist, baseDirectionalDist,
                           baseDirectionalDist>>,
        directional2 |-> <<JsNeg(baseDirectionalDist), baseDirectionalDist,
                           JsHalf(JsNeg(baseDirectionalDist))>>,
        directional3 |-> <<Fin(0, 1), JsNeg(baseDirectionalDist),
                           JsHalf(baseDirectionalDist)>>,
        point1 |-> <<basePointDist, basePointDist, basePointDist>>,
        point2 |-> <<JsNeg(basePointDist), basePointDist,
                     JsNeg(basePointDist)>>]

CalculateMaterialDefaults(dimensions) ==
    [envMapIntensity |-> IF LargestDim(dimensions) > 256 THEN Fin(6, 10)
                         ELSE IF LargestDim(dimensions) > 128 THEN Fin(5, 10)
                         ELSE Fin(4, 10),
     roughnessBase |-> Fin(3, 10),
     roughnessFactor |-> 200]

\* a result that depends on how many calls were made before
MutGetAdaptiveViewConfig_Counting(dimensions) ==
    [cameraPosition |-> CalculateCameraPosition(dimensions),
     cameraFOV |-> CalculateFOV(dimensions) + Len(cfg.log),
     gridSize |-> CalculateGridConfig(dimensions).size,
     gridCellSize |-> CalculateGridConfig(dimensions).cellSize,
     minCameraDistance |-> CalculateCameraLimits(dimensions).min,
     maxCameraDistance |-> CalculateCameraLimits(dimensions).max,
     lightingIntensity |-> CalculateLightingIntensity(dimensions),
     lightPositions |-> CalculateLightPositions(dimensions),
     materialDefaults |-> CalculateMaterialDefaults(dimensions)]

GetAdaptiveViewConfig(dimensions) ==
    [cameraPosition |-> CalculateCameraPosition(dimensions),
     cameraFOV |-> CalculateFOV(dimensions),
     gridSize |-> CalculateGridConfig(dimensions).size,
     gridCellSize |-> CalculateGridConfig(dimensions).cellSize,
     minCameraDistance |-> CalculateCameraLimits(dimensions).min,
     maxCameraDistance |-> CalculateCameraLimits(dimensions).max,
     lightingIntensity |-> CalculateLightingIntensity(dimensions),
     lightPositions |-> CalculateLightPositions(dimensions),
     materialDefaults |-> CalculateMaterialDefaults(dimensions)]

\* voxel counts of an axis: none, tiny scans, and the sizes on both sides of
\* the 128 / 256 / 512 steps and of the 500 ceiling
CfgSizes == {0, 1, 3, 4, 64, 128, 129, 256, 257, 512, 513, 6400}

Doubled(dimensions) ==
    ScanDimensions(2 * dimensions.width, 2 * dimensions.height,
                   2 * dimensions.depth)

CfgIdle == [dimensions |-> ScanDimensions(128, 128, 128), log |-> <<>>]

\* the scans whose configuration is asked for
CfgInputs ==
    {[dimensions |-> ScanDimensions(w, h, d), log |-> <<>>] :
        w \in CfgSizes, h \in CfgSizes, d \in CfgSizes}

\* one call of getAdaptiveViewConfig, for the scan or for the scan with all
\* three dimensions doubled; the log keeps the argument and the result
ViewConfigCall ==
    \E d \in {cfg.dimensions, Doubled(cfg.dimensions)} :
        /\ Len(cfg.log) < MaxConfigCalls
        /\ cfg' = [cfg EXCEPT !.log =
                      Append(@, [dimensions |-> d,
                                 config |-> GetAdaptiveViewConfig(d)])]
        /\ UNCHANGED <<appVars, si, sv, fetches, win, stat, mesh, meas, fu, wl>>

----------------------------------------------------------------------------
(* JavaScript arithmetic on finite numbers, and comparison *)

\* x + y
JsPlus(x, y) == Fin(x.num * y.den + y.num * x.den, x.den * y.den)

\* x - y
JsMinus(x, y) == Fin(x.num * y.den - y.num * x.den, x.den * y.den)

\* x * y
JsMul(x, y) == Fin(x.num * y.num, x.den * y.den)

\* x < y
JsLess(x, y) ==
    IF x.kind = "nan" \/ y.kind = "nan" THEN FALSE
    ELSE IF x.kind = "ninf" THEN y.kind # "ninf"
    ELSE IF x.kind = "inf" THEN FALSE
    ELSE IF y.kind = "inf" THEN TRUE
    ELSE IF y.kind = "ninf" THEN FALSE
    ELSE x.num * y.den < y.num * x.den

\* Math.min(x, y)
JsMin(x, y) ==
    IF x.kind = "nan" \/ y.kind = "nan" THEN NaN
    ELSE IF JsLess(y, x) THEN y ELSE x

\* Math.max(x, y)
JsMax(x, y) ==
    IF x.kind = "nan" \/ y.kind = "nan" THEN NaN
    ELSE IF JsLess(x, y) THEN y ELSE x

RECURSIVE Gcd(_, _)
Gcd(a, b) == IF b = 0 THEN a ELSE Gcd(b, a % b)

\* a finite number in lowest terms
Reduced(x) ==
    LET g == Gcd(IF x.num < 0 THEN -x.num ELSE x.num, x.den)
    IN Fin(x.num \div g, x.den \div g)

----------------------------------------------------------------------------
(* SegmentMesh: the geometry memo *)

\* new Float32Array(mesh.vertices.flat()), three coordinates per vertex
PositionAttribute(vertices) ==
    [i \in 1..Len(vertices) |->
        <<Fin(vertices[i][1], 1), Fin(vertices[i][2], 1),
          Fin(vertices[i][3], 1)>>]

\* new Uint32Array(mesh.faces.flat())
IndexAttribute(faces) ==
    [i \in 1..(3 * Len(faces)) |-> faces[((i - 1) \div 3) + 1][((i - 1) % 3) + 1]]

\* the normal attribute: the copy of mesh.normals, or computeVertexNormals()
NormalAttribute(m) ==
    IF m.hasNormals THEN [source |-> "mesh", count |-> Len(m.normals)]
    ELSE [source |-> "computed", count |-> Len(m.vertices)]

\* computeBoundingBox: the least coordinate k of the first n positions
RECURSIVE BoxMin(_, _, _)
BoxMin(positions, k, n) ==
    IF n = 0 THEN PosInf
    ELSE JsMin(positions[n][k], BoxMin(positions, k, n - 1))

RECURSIVE BoxMax(_, _, _)
BoxMax(positions, k, n) ==
    IF n = 0 THEN NegInf
    ELSE JsMax(positions[n][k], BoxMax(positions, k, n - 1))

ComputeBoundingBox(positions) ==
    [min |-> [k \in 1..3 |-> BoxMin(positions, k, Len(positions))],
     max |-> [k \in 1..3 |-> BoxMax(positions, k, Len(positions))]]

MutBoxCenter_Min(box) ==
    [k \in 1..3 |-> IF JsLess(box.max[k], box.min[k]) THEN Fin(0, 1)
                    ELSE box.min[k]]

\* boundingBox.getCenter(center): (0, 0, 0) for an empty box, else
\* (min + max) * 0.5
BoxCenter(box) ==
    [k \in 1..3 |-> IF JsLess(box.max[k], box.min[k]) THEN Fin(0, 1)
                    ELSE JsHalf(JsPlus(box.min[k], box.max[k]))]

\* geom.translate(-center.x, -center.y, -center.z) on the position attribute
Translate(positions, center) ==
    [i \in 1..Len(positions) |->
        [k \in 1..3 |-> JsMinus(positions[i][k], center[k])]]

\* the BufferGeometry the memo returns; translate recomputes boundingBox
SegmentGeometry(m) ==
    LET position == PositionAttribute(m.vertices)
        centred == Translate(position,
                             BoxCenter(ComputeBoundingBox(position)))
    IN [position |-> centred,
        index |-> IndexAttribute(m.faces),
        normal |-> NormalAttribute(m),
        boundingBox |-> ComputeBoundingBox(centred)]

----------------------------------------------------------------------------
(* SegmentMesh: the shading parameters *)

Presets ==
    {"default", "bone", "soft_tissue", "transparent", "dental_structures",
     "enamel_focus", "root_canal", "pathology"}

MeshQualities == {"low", "medium", "high"}

NoRenderingSettings ==
    [defined |-> FALSE, globalOpacity |-> Fin(1, 1), meshQuality |-> "medium",
     wireframe |-> FALSE, preset |-> "default"]

NoSegmentSettings ==
    [defined |-> FALSE, hasOpacity |-> FALSE, opacity |-> Fin(1, 1),
     hasSmoothness |-> FALSE, smoothness |-> 0]

\* segmentSettings?.opacity ?? 0.85
SegmentOpacity(segmentSettings) ==
    IF segmentSettings.defined /\ segmentSettings.hasOpacity
    THEN segmentSettings.opacity ELSE Fin(85, 100)

\* renderingSettings?.globalOpacity ?? 1.0
GlobalOpacity(renderingSettings) ==
    IF renderingSettings.defined THEN renderingSettings.globalOpacity
    ELSE Fin(1, 1)

FinalOpacity(segmentSettings, renderingSettings) ==
    JsMul(SegmentOpacity(segmentSettings), GlobalOpacity(renderingSettings))

\* segmentSettings?.smoothness ?? 50
Smoothness(segmentSettings) ==
    IF segmentSettings.defined /\ segmentSettings.hasSmoothness
    THEN segmentSettings.smoothness ELSE 50

FlatShading(segmentSettings) == Smoothness(segmentSettings) < 30

\* roughnessBase + (100 - smoothness) / roughnessFactor
BaseRoughness(smoothness, materialDefaults) ==
    JsPlus(materialDefaults.roughnessBase,
           JsDiv(100 - smoothness, materialDefaults.roughnessFactor))

MutGetPresetAdjustments_BoneUnclamped(renderingSettings, smoothness, materialDefaults) ==
    LET baseRoughness == BaseRoughness(smoothness, materialDefaults)
    IN IF renderingSettings.defined /\ renderingSettings.preset = "bone"
       THEN [roughness |-> JsPlus(baseRoughness, Fin(5, 10)),
             metalness |-> Fin(1, 10)]
       ELSE [roughness |-> baseRoughness, metalness |-> Fin(2, 10)]

MutGetPresetAdjustments_ByQuality(renderingSettings, smoothness, materialDefaults) ==
    LET baseRoughness == BaseRoughness(smoothness, materialDefaults)
    IN IF renderingSettings.defined /\ renderingSettings.meshQuality = "high"
       THEN [roughness |-> JsHalf(baseRoughness), metalness |-> Fin(2, 10)]
       ELSE [roughness |-> baseRoughness, metalness |-> Fin(2, 10)]

\* the switch on renderingSettings?.preset
GetPresetAdjustments(renderingSettings, smoothness, materialDefaults) ==
    LET baseRoughness == BaseRoughness(smoothness, materialDefaults)
        preset == IF renderingSettings.defined THEN renderingSettings.preset
                  ELSE "undefined"
    IN IF preset = "bone"
       THEN [roughness |-> JsMin(Fin(9, 10), JsPlus(baseRoughness, Fin(5, 10))),
             metalness |-> Fin(1, 10)]
       ELSE IF preset = "soft_tissue"
       THEN [roughness |-> JsMax(Fin(1, 10), JsMinus(baseRoughness, Fin(2, 10))),
             metalness |-> Fin(0, 10)]
       ELSE IF preset = "transparent"
       THEN [roughness |-> JsMax(Fin(1, 10), JsMinus(baseRoughness, Fin(1, 10))),
             metalness |-> Fin(1, 10)]
       ELSE [roughness |-> baseRoughness, metalness |-> Fin(2, 10)]

\* qualitySettings[renderingSettings?.meshQuality || 'medium']
QualityOffset(renderingSettings) ==
    LET meshQuality == IF renderingSettings.defined
                       THEN renderingSettings.meshQuality ELSE "medium"
    IN IF meshQuality = "low"
       THEN [polygonOffsetFactor |-> 1, polygonOffsetUnits |-> 1]
       ELSE IF meshQuality = "medium"
       THEN [polygonOffsetFactor |-> 0, polygonOffsetUnits |-> 0]
       ELSE [polygonOffsetFactor |-> -1, polygonOffsetUnits |-> -1]

\* what one render of SegmentMesh hands to <mesh> and <meshStandardMaterial>
RenderedMesh(m) ==
    LET adj == GetPresetAdjustments(m.renderingSettings,
                                    Smoothness(m.segmentSettings),
                                    m.viewConfig.materialDefaults)
    IN [rendered |-> TRUE,
        geometry |-> SegmentGeometry(m),
        opacity |-> FinalOpacity(m.segmentSettings, m.renderingSettings),
        roughness |-> adj.roughness,
        metalness |-> adj.metalness,
        envMapIntensity |-> m.viewConfig.materialDefaults.envMapIntensity,
        wireframe |-> m.renderingSettings.defined
                          /\ m.renderingSettings.wireframe,
        flatShading |-> FlatShading(m.segmentSettings),
        polygonOffsetFactor |->
            QualityOffset(m.renderingSettings).polygonOffsetFactor,
        polygonOffsetUnits |->
            QualityOffset(m.renderingSettings).polygonOffsetUnits]

NotRendered ==
    [rendered |-> FALSE, geometry |-> <<>>, opacity |-> Fin(0, 1),
     roughness |-> Fin(0, 1), metalness |-> Fin(0, 1),
     envMapIntensity |-> Fin(0, 1), wireframe |-> FALSE,
     flatShading |-> FALSE, polygonOffsetFactor |-> 0,
     polygonOffsetUnits |-> 0]

\* the vertices a mesh is built from
VertexChoices == {<<1, 0, -2>>, <<4, -1, 4>>}

\* the vertex arrays of a MeshData: up to MaxVertices vertices
VertexArrays == UNION {[1..n -> VertexChoices] : n \in 0..MaxVertices}

\* one triangle over the first three vertices when there are three
FacesOf(vertices) == IF Len(vertices) >= 3 THEN <<(<<0, 1, 2>>)>> ELSE <<>>

RenderingSettingsChoices ==
    {NoRenderingSettings} \cup
    {[defined |-> TRUE, globalOpacity |-> Fin(g, 100), meshQuality |-> q,
      wireframe |-> FALSE, preset |-> p] :
        g \in {50}, q \in MeshQualities, p \in Presets}

SegmentSettingsChoices ==
    {NoSegmentSettings} \cup
    {[defined |-> TRUE, hasOpacity |-> o >= 0,
      opacity |-> IF o >= 0 THEN Fin(o, 100) ELSE Fin(1, 1),
      hasSmoothness |-> s >= 0,
      smoothness |-> IF s >= 0 THEN s ELSE 0] :
        o \in {-1, 40}, s \in {-1, 0, 29, 100}}

MeshIdle ==
    [vertices |-> <<>>, faces |-> <<>>, hasNormals |-> FALSE,
     normals |-> <<>>, renderingSettings |-> NoRenderingSettings,
     segmentSettings |-> NoSegmentSettings,
     viewConfig |-> GetAdaptiveViewConfig(ScanDimensions(128, 128, 128)),
     out |-> NotRendered, prev |-> NotRendered]

\* the props a SegmentMesh may be mounted with
MeshInputs ==
    {[vertices |-> v, faces |-> FacesOf(v), hasNormals |-> hn,
      normals |-> IF hn THEN v ELSE <<>>,
      renderingSettings |-> rs, segmentSettings |-> ss,
      viewConfig |-> GetAdaptiveViewConfig(ScanDimensions(128, 128, 128)),
      out |-> NotRendered, prev |-> NotRendered] :
        v \in VertexArrays, hn \in BOOLEAN, rs \in RenderingSettingsChoices,
        ss \in SegmentSettingsChoices}

\* the first render of the component
RenderSegmentMesh ==
    /\ ~mesh.out.rendered
    /\ mesh' = [mesh EXCEPT !.out = RenderedMesh(mesh)]
    /\ UNCHANGED <<appVars, si, sv, fetches, win, stat, cfg, meas, fu, wl>>

\* a Mesh Quality button: onRenderingChange({ meshQuality }), then the
\* render with the new renderingSettings; prev keeps the render before
ChangeMeshQuality ==
    \E q \in MeshQualities :
        /\ mesh.out.rendered
        /\ mesh.renderingSettings.defined
        /\ q # mesh.renderingSettings.meshQuality
        /\ mesh' = [mesh EXCEPT
                      !.renderingSettings.meshQuality = q,
                      !.prev = mesh.out,
                      !.out = RenderedMesh(
                                 [mesh EXCEPT
                                     !.renderingSettings.meshQuality = q])]
        /\ UNCHANGED <<appVars, si, sv, fetches, win, stat, cfg, meas, fu, wl>>

----------------------------------------------------------------------------
(* MeasurementTools: segment volumes *)

MutCalculateVolume_CubicMm(voxelCount, spacing) ==
    JsTimes(JsMul(JsMul(spacing[1], spacing[2]), spacing[3]), voxelCount)

\* (voxelCount * (spacing[0] * spacing[1] * spacing[2])) / 1000
CalculateVolume(voxelCount, spacing) ==
    LET voxelVolume == JsMul(JsMul(spacing[1], spacing[2]), spacing[3])
    IN Fin(voxelCount * voxelVolume.num, voxelVolume.den * 1000)

\* the Measurement addSegmentVolume builds (its id is a timestamp)
VolumeMeasurement(segment, spacing) ==
    [type |-> "volume", label |-> <<segment.name, "Volume">>,
     value |-> CalculateVolume(segment.voxel_count, spacing), unit |-> "cm3"]

\* list.includes(name)
Includes(list, name) ==
    \E i \in DOMAIN list : list[i] = name

\* list.filter(s => s !== name)
Without(list, name) ==
    LET Keep(s) == s # name IN SelectSeq(list, Keep)

\* voxel spacings in mm along one axis
SpacingChoices == {Fin(2, 10), Fin(1, 2), Fin(1, 1)}

\* segment.voxel_count; 0 also stands for a count that is not given
VoxelCounts == {0, 1, 100000}

\* activeTool: null or one of the three tools
NoTool == "none"
Tools == {"distance", "volume", "angle"}

MeasIdle ==
    [segments |-> {}, spacing |-> <<Fin(1, 1), Fin(1, 1), Fin(1, 1)>>,
     measurements |-> <<>>, activeTool |-> NoTool, selectedSegments |-> <<>>]

\* the spacing props: the three isotropic ones and an anisotropic one
SpacingVectors ==
    {<<s, s, s>> : s \in SpacingChoices} \cup {<<Fin(2, 10), Fin(1, 2), Fin(1, 1)>>}

\* the props MeasurementTools may be given, with the initial useState values
MeasInputs ==
    {[segments |-> {[name |-> "mandible", voxel_count |-> a],
                    [name |-> "teeth", voxel_count |-> b],
                    [name |-> "maxilla", voxel_count |-> 4000]},
      spacing |-> s, measurements |-> <<>>, activeTool |-> NoTool,
      selectedSegments |-> <<>>] :
        a \in VoxelCounts, b \in VoxelCounts, s \in SpacingVectors}
    \cup
    {[segments |-> {[name |-> "mandible", voxel_count |-> 1],
                    [name |-> "teeth", voxel_count |-> 100000],
                    [name |-> "maxilla", voxel_count |-> 4000],
                    [name |-> "airway", voxel_count |-> 9000]},
      spacing |-> <<Fin(1, 2), Fin(1, 2), Fin(1, 2)>>, measurements |-> <<>>,
      activeTool |-> NoTool, selectedSegments |-> <<>>]}

\* segments.find(s => s.name === name), for a name of the list
FindSegment(segments, name) == CHOOSE s \in segments : s.name = name

\* a tool button: the active tool is switched off, another one is switched
\* on with an empty selection
ToolButton ==
    \E tool \in Tools :
        LET newTool == IF meas.activeTool = tool THEN NoTool ELSE tool
        IN /\ meas' = [meas EXCEPT
                         !.activeTool = newTool,
                         !.selectedSegments =
                             IF newTool # NoTool THEN <<>> ELSE @]
           /\ UNCHANGED <<appVars, si, sv, fetches, win, stat, cfg, mesh, fu, wl>>

\* a segment's volume button of the volume tool: addSegmentVolume(segment)
AddSegmentVolume ==
    \E segment \in meas.segments :
        /\ meas.activeTool = "volume"
        /\ segment.voxel_count # 0
        /\ Len(meas.measurements) < MaxMeasurements
        /\ meas' = [meas EXCEPT !.measurements =
                       Append(@, VolumeMeasurement(segment, meas.spacing))]
        /\ UNCHANGED <<appVars, si, sv, fetches, win, stat, cfg, mesh, fu, wl>>

MutSelectionAfterToggle_NoDrop(selectedSegments, activeTool, segmentName) ==
    IF Includes(selectedSegments, segmentName)
    THEN Without(selectedSegments, segmentName)
    ELSE Append(selectedSegments, segmentName)

\* the list toggleSegmentSelection gives setSelectedSegments
SelectionAfterToggle(selectedSegments, activeTool, segmentName) ==
    IF Includes(selectedSegments, segmentName)
    THEN Without(selectedSegments, segmentName)
    ELSE IF activeTool = "distance" /\ Len(selectedSegments) >= 2
    THEN <<selectedSegments[2], segmentName>>
    ELSE IF activeTool = "angle" /\ Len(selectedSegments) >= 3
    THEN Append(Tail(selectedSegments), segmentName)
    ELSE Append(selectedSegments, segmentName)

\* a segment button of the distance or the angle tool
ToggleSegmentSelection ==
    \E segment \in meas.segments :
        /\ meas.activeTool \in {"distance", "angle"}
        /\ meas' = [meas EXCEPT !.selectedSegments =
                       SelectionAfterToggle(@, meas.activeTool, segment.name)]
        /\ UNCHANGED <<appVars, si, sv, fetches, win, stat, cfg, mesh, fu, wl>>

\* Math.abs(x)
MathAbs(x) ==
    IF x.kind = "fin" THEN Fin(IF x.num < 0 THEN -x.num ELSE x.num, x.den)
    ELSE IF x.kind = "ninf" THEN PosInf
    ELSE x

\* Math.abs(Math.sqrt(count1 - count2)) * spacing[0] / 10, as the product of
\* a factor and the square root of a radicand; NaN when the root is NaN
DistanceEstimate(seg1, seg2, spacing) ==
    LET root == JsSqrt(Fin(seg1.voxel_count - seg2.voxel_count, 1))
    IN IF root.kind = "nan"
       THEN [kind |-> "nan", radicand |-> NaN, factor |-> NaN]
       ELSE [kind |-> "fin", radicand |-> root.radicand,
             factor |-> Fin(spacing[1].num, spacing[1].den * 10)]

DistanceMeasurement(seg1, seg2, spacing) ==
    [type |-> "distance", label |-> <<seg1.name, "to", seg2.name>>,
     value |-> DistanceEstimate(seg1, seg2, spacing), unit |-> "cm"]

\* the Calculate Distance button: calculateDistanceMeasurement
CalculateDistanceMeasurement ==
    /\ meas.activeTool = "distance"
    /\ Len(meas.selectedSegments) = 2
    /\ Len(meas.measurements) < MaxMeasurements
    /\ LET seg1 == FindSegment(meas.segments, meas.selectedSegments[1])
           seg2 == FindSegment(meas.segments, meas.selectedSegments[2])
       IN meas' = [meas EXCEPT
                     !.measurements =
                         Append(@, DistanceMeasurement(seg1, seg2, meas.spacing)),
                     !.selectedSegments = <<>>,
                     !.activeTool = NoTool]
    /\ UNCHANGED <<appVars, si, sv, fetches, win, stat, cfg, mesh, fu, wl>>

\* (segment.voxel_count || 1) / 1000
Thousands(segment) ==
    Reduced(Fin(IF segment.voxel_count = 0 THEN 1 ELSE segment.voxel_count,
                1000))

\* x / y for finite x and y # 0
JsQuot(x, y) ==
    LET xn == IF x.num < 0 THEN -x.num ELSE x.num
        yn == IF y.num < 0 THEN -y.num ELSE y.num
        gn == IF xn = 0 THEN yn ELSE Gcd(xn, yn)
        gd == Gcd(x.den, y.den)
        sign == IF (x.num < 0) = (y.num < 0) THEN 1 ELSE -1
    IN Fin(sign * (xn \div gn) * (y.den \div gd),
           (x.den \div gd) * (yn \div gn))

\* Math.acos(c) * (180 / Math.PI) for c in [-1, 1]: exact at -1, 0 and 1
AcosDegrees(c) ==
    IF c = Fin(1, 1) THEN Fin(0, 1)
    ELSE IF c = Fin(-1, 1) THEN Fin(180, 1)
    ELSE IF c.num = 0 THEN Fin(90, 1)
    ELSE [kind |-> "acos", num |-> c.num, den |-> c.den]

MutAngleEstimate_FirstIsVertex(seg1, seg2, seg3) ==
    LET vec1 == Reduced(JsMinus(Thousands(seg2), Thousands(seg1)))
        vec2 == Reduced(JsMinus(Thousands(seg3), Thousands(seg1)))
    IN IF vec1.num # 0 /\ vec2.num # 0
       THEN (IF (vec1.num > 0) = (vec2.num > 0) THEN Fin(0, 1) ELSE Fin(180, 1))
       ELSE Fin(0, 1)

\* the angle of calculateAngleMeasurement; seg2 is the vertex
AngleEstimate(seg1, seg2, seg3) ==
    LET v1 == Thousands(seg1)
        v2 == Thousands(seg2)
        v3 == Thousands(seg3)
        vec1 == Reduced(JsMinus(v1, v2))
        vec2 == Reduced(JsMinus(v3, v2))
        dotProduct == JsMul(vec1, vec2)
        mag1 == MathAbs(vec1)
        mag2 == MathAbs(vec2)
    IN IF JsLess(Fin(0, 1), mag1) /\ JsLess(Fin(0, 1), mag2)
       THEN LET cosAngle == JsQuot(dotProduct, JsMul(mag1, mag2))
            IN AcosDegrees(JsMax(Fin(-1, 1), JsMin(Fin(1, 1), cosAngle)))
       ELSE Fin(0, 1)

AngleMeasurement(seg1, seg2, seg3) ==
    [type |-> "angle", label |-> <<seg1.name, seg2.name, seg3.name>>,
     value |-> AngleEstimate(seg1, seg2, seg3), unit |-> "deg"]

\* the Calculate Angle button: calculateAngleMeasurement
CalculateAngleMeasurement ==
    /\ meas.activeTool = "angle"
    /\ Len(meas.selectedSegments) = 3
    /\ Len(meas.measurements) < MaxMeasurements
    /\ LET seg1 == FindSegment(meas.segments, meas.selectedSegments[1])
           seg2 == FindSegment(meas.segments, meas.selectedSegments[2])
           seg3 == FindSegment(meas.segments, meas.selectedSegments[3])
       IN meas' = [meas EXCEPT
                     !.measurements =
                         Append(@, AngleMeasurement(seg1, seg2, seg3)),
                     !.selectedSegments = <<>>,
                     !.activeTool = NoTool]
    /\ UNCHANGED <<appVars, si, sv, fetches, win, stat, cfg, mesh, fu, wl>>

----------------------------------------------------------------------------
(* FileUpload: validateFile and the two ways of picking a file *)

MAX_FILE_SIZE_MB == 500

BytesPerMB == 1024 * 1024

\* the two non-empty texts setSizeWarning is given
TooLargeMessage == "File is too large"
LargeFileWarning == "Large file"

\* file.size of the files a user may pick, in bytes
FileSizes ==
    {0, 1, 100 * BytesPerMB, 100 * BytesPerMB + 1,
     MAX_FILE_SIZE_MB * BytesPerMB, MAX_FILE_SIZE_MB * BytesPerMB + 1}

FileNames == {"scan.nii", "scan.dcm"}

\* e.dataTransfer.files / e.target.files: no file, or the file files[0]
FileLists ==
    {<<>>} \cup {<<[name |-> n, size |-> s]>> : n \in FileNames, s \in FileSizes}

MutValidateFile_NoLimit(file) ==
    IF JsLess(Fin(100, 1), Fin(file.size, BytesPerMB))
    THEN [valid |-> TRUE, sizeWarning |-> LargeFileWarning]
    ELSE [valid |-> TRUE, sizeWarning |-> ""]

\* what validateFile returns and what it gives setSizeWarning
ValidateFile(file) ==
    LET fileSizeMB == Fin(file.size, BytesPerMB)
    IN IF JsLess(Fin(MAX_FILE_SIZE_MB, 1), fileSizeMB)
       THEN [valid |-> FALSE, sizeWarning |-> TooLargeMessage]
       ELSE IF JsLess(Fin(100, 1), fileSizeMB)
       THEN [valid |-> TRUE, sizeWarning |-> LargeFileWarning]
       ELSE [valid |-> TRUE, sizeWarning |-> ""]

\* useState values; files is the file list of the last drop or change event,
\* events counts those events, calls lists the files given to onFileSelected
FuIdle ==
    [isDragging |-> FALSE, selectedFileName |-> "", sizeWarning |-> "",
     files |-> <<>>, events |-> 0, calls |-> <<>>]

\* if (files && files.length > 0) { if (validateFile(file)) { ... } }
FileEvent(f, files) ==
    IF Len(files) = 0
    THEN [f EXCEPT !.files = files, !.events = @ + 1]
    ELSE LET v == ValidateFile(files[1])
         IN IF v.valid
            THEN [f EXCEPT !.files = files, !.events = @ + 1,
                           !.sizeWarning = v.sizeWarning,
                           !.selectedFileName = files[1].name,
                           !.calls = Append(@, files[1])]
            ELSE [f EXCEPT !.files = files, !.events = @ + 1,
                           !.sizeWarning = v.sizeWarning]

HandleDragEnter ==
    /\ fu' = [fu EXCEPT !.isDragging = TRUE]
    /\ UNCHANGED <<appVars, si, sv, fetches, win, stat, cfg, mesh, meas, wl>>

HandleDragLeave ==
    /\ fu' = [fu EXCEPT !.isDragging = FALSE]
    /\ UNCHANGED <<appVars, si, sv, fetches, win, stat, cfg, mesh, meas, wl>>

HandleDrop ==
    \E files \in FileLists :
        /\ fu.events < MaxFiles
        /\ fu' = [FileEvent(fu, files) EXCEPT !.isDragging = FALSE]
        /\ UNCHANGED <<appVars, si, sv, fetches, win, stat, cfg, mesh, meas, wl>>

\* the file input is disabled while isUploading
HandleFileInput ==
    \E files \in FileLists :
        /\ ~state.isUploading
        /\ fu.events < MaxFiles
        /\ fu' = FileEvent(fu, files)
        /\ UNCHANGED <<appVars, si, sv, fetches, win, stat, cfg, mesh, meas, wl>>

----------------------------------------------------------------------------
(* SliceViewer: the windowing state of the three views of a group *)

\* useState(500), useState(2000)
WlInitial == [a \in Axes |-> [windowCenter |-> 500, windowWidth |-> 2000]]

\* values of the center slider (min 0, max 1000) and of the width slider
\* (min 100, max 3000)
CenterStops == {0, 1, 1000}
WidthStops == {100, 3000}

SetWindowCenter ==
    \E a \in Axes, newCenter \in CenterStops :
        /\ wl' = [wl EXCEPT ![a].windowCenter = newCenter]
        /\ UNCHANGED <<appVars, si, sv, fetches, win, stat, cfg, mesh, meas, fu>>

SetWindowWidth ==
    \E a \in Axes, newWidth \in WidthStops :
        /\ wl' = [wl EXCEPT ![a].windowWidth = newWidth]
        /\ UNCHANGED <<appVars, si, sv, fetches, win, stat, cfg, mesh, meas, fu>>

PresetDefault ==
    \E a \in Axes :
        /\ wl' = [wl EXCEPT ![a] = [windowCenter |-> 500, windowWidth |-> 2000]]
        /\ UNCHANGED <<appVars, si, sv, fetches, win, stat, cfg, mesh, meas, fu>>

PresetBone ==
    \E a \in Axes :
        /\ wl' = [wl EXCEPT ![a] = [windowCenter |-> 600, windowWidth |-> 2500]]
        /\ UNCHANGED <<appVars, si, sv, fetches, win, stat, cfg, mesh, meas, fu>>

PresetSoft ==
    \E a \in Axes :
        /\ wl' = [wl EXCEPT ![a] = [windowCenter |-> 50, windowWidth |-> 400]]
        /\ UNCHANGED <<appVars, si, sv, fetches, win, stat, cfg, mesh, meas, fu>>

----------------------------------------------------------------------------
(* Initial state *)

AppInit ==
    /\ state = InitialState
    /\ showMPR = FALSE
    /\ viewMode = "raw"
    /\ preSegViewMode = "2d"
    /\ mprSlices = UndefinedMpr
    /\ views = [g \in Groups |-> Unmounted]
    /\ net = {}
    /\ nextScan = 1
    /\ touched = {}

Init ==
    /\ AppInit
    /\ si = SiIdle
    /\ sv = SvIdle
    /\ fetches = {}
    /\ win = WinIdle
    /\ stat = StatIdle
    /\ cfg = CfgIdle
    /\ mesh = MeshIdle
    /\ meas = MeasIdle
    /\ fu = FuIdle
    /\ wl = WlInitial

----------------------------------------------------------------------------
(* App actions *)

\* FileUpload -> handleFileSelected, up to the await of uploadCBCT
SelectFile ==
    /\ state.scanId = 0
    /\ ~state.isUploading
    /\ nextScan <= MaxScans
    /\ net' = net \cup {[kind |-> "upload", scan |-> nextScan]}
    /\ nextScan' = nextScan + 1
    /\ Commit([state EXCEPT !.isUploading = TRUE], preSegViewMode, showMPR)
    /\ UNCHANGED <<viewMode, touched>>
    /\ UNCHANGED compVars

\* uploadCBCT resolves: scanId, filename, metadata are set, then the volume
\* is requested
UploadResponse ==
    \E r \in net, d \in DimChoices :
        /\ r.kind = "upload"
        /\ net' = (net \ {r}) \cup {[kind |-> "volume", scan |-> r.scan]}
        /\ Commit([state EXCEPT !.scanId = r.scan, !.metadata = d,
                                !.isUploading = FALSE,
                                !.isLoadingVolume = TRUE],
                  preSegViewMode, showMPR)
        /\ touched' = {}
        /\ UNCHANGED <<viewMode, nextScan>>
        /\ UNCHANGED compVars

\* uploadCBCT rejects
UploadFails ==
    \E r \in net :
        /\ r.kind = "upload"
        /\ net' = net \ {r}
        /\ Commit([state EXCEPT !.isUploading = FALSE], preSegViewMode, showMPR)
        /\ UNCHANGED <<viewMode, nextScan, touched>>
        /\ UNCHANGED compVars

\* getVolumeData resolves
VolumeResponse ==
    \E r \in net :
        /\ r.kind = "volume"
        /\ net' = net \ {r}
        /\ Commit([state EXCEPT !.volumeData = r.scan,
                                !.isLoadingVolume = FALSE],
                  preSegViewMode, showMPR)
        /\ UNCHANGED <<viewMode, nextScan, touched>>
        /\ UNCHANGED compVars

\* getVolumeData rejects
VolumeFails ==
    \E r \in net :
        /\ r.kind = "volume"
        /\ net' = net \ {r}
        /\ Commit([state EXCEPT !.isLoadingVolume = FALSE],
                  preSegViewMode, showMPR)
        /\ UNCHANGED <<viewMode, nextScan, touched>>
        /\ UNCHANGED compVars

\* the Segment Scan button -> handleSegment, up to the await
Segment ==
    /\ state.scanId # 0
    /\ state.segments = {}
    /\ ~state.isSegmenting
    /\ net' = net \cup {[kind |-> "segment", scan |-> state.scanId]}
    /\ Commit([state EXCEPT !.isSegmenting = TRUE], preSegViewMode, showMPR)
    /\ UNCHANGED <<viewMode, nextScan, touched>>
    /\ UNCHANGED compVars

\* segmentationResponse.segments and the meshes of a scan with n segments:
\* a segment and its mesh are named 1..n and belong to the scan they were
\* requested for
SegmentsOf(scan, n) == {[name |-> i, scan |-> scan] : i \in 1..n}

\* segments.map(s => s.name), for segments named 1..n
SegmentNames(segments) == [i \in 1..Cardinality(segments) |-> i]

\* performSegmentation and the mesh requests resolve
SegmentResponse ==
    \E r \in net, n \in 0..MaxSegs :
        /\ r.kind = "segment"
        /\ net' = net \ {r}
        /\ viewMode' = "segmented"
        /\ Commit([state EXCEPT !.segments = SegmentsOf(r.scan, n),
                                !.meshes = SegmentsOf(r.scan, n),
                                !.visibleSegments =
                                    SegmentNames(SegmentsOf(r.scan, n)),
                                !.isSegmenting = FALSE],
                  preSegViewMode, showMPR)
        /\ UNCHANGED <<nextScan, touched>>
        /\ UNCHANGED compVars

\* performSegmentation or a mesh request rejects
SegmentFails ==
    \E r \in net :
        /\ r.kind = "segment"
        /\ net' = net \ {r}
        /\ Commit([state EXCEPT !.isSegmenting = FALSE], preSegViewMode, showMPR)
        /\ UNCHANGED <<viewMode, nextScan, touched>>
        /\ UNCHANGED compVars

MutToggleSegment_Append(visibleSegments, segmentName) ==
    Append(visibleSegments, segmentName)

\* the new visibleSegments of handleToggleSegment
ToggleSegment(visibleSegments, segmentName) ==
    IF Includes(visibleSegments, segmentName)
    THEN Without(visibleSegments, segmentName)
    ELSE Append(visibleSegments, segmentName)

\* the segments tab is rendered for a loaded scan that has segments
SegmentListShown == state.scanId # 0 /\ state.segments # {}

\* a segment's switch -> handleToggleSegment(segment.name)
HandleToggleSegment ==
    \E segment \in state.segments :
        /\ SegmentListShown
        /\ Commit([state EXCEPT !.visibleSegments =
                                   ToggleSegment(@, segment.name)],
                  preSegViewMode, showMPR)
        /\ UNCHANGED <<viewMode, net, nextScan, touched>>
        /\ UNCHANGED compVars

\* a click on a segment's row -> handleSegmentClick(segment.name)
HandleSegmentClick ==
    \E segment \in state.segments :
        /\ SegmentListShown
        /\ Commit([state EXCEPT !.visibleSegments = <<segment.name>>],
                  preSegViewMode, showMPR)
        /\ UNCHANGED <<viewMode, net, nextScan, touched>>
        /\ UNCHANGED compVars

\* the Show All button
ShowAll ==
    /\ SegmentListShown
    /\ Commit([state EXCEPT !.visibleSegments = SegmentNames(state.segments)],
              preSegViewMode, showMPR)
    /\ UNCHANGED <<viewMode, net, nextScan, touched>>
    /\ UNCHANGED compVars

\* the Hide All button
HideAll ==
    /\ SegmentListShown
    /\ Commit([state EXCEPT !.visibleSegments = <<>>],
              preSegViewMode, showMPR)
    /\ UNCHANGED <<viewMode, net, nextScan, touched>>
    /\ UNCHANGED compVars

\* the New Scan button -> handleReset
HandleReset ==
    /\ state.scanId # 0
    /\ Commit(InitialState, preSegViewMode, showMPR)
    /\ touched' = {}
    /\ UNCHANGED <<viewMode, net, nextScan>>
    /\ UNCHANGED compVars

\* the 3D overlays are rendered unless the pre-segmentation 2D view is
Overlay3D ==
    /\ state.scanId # 0
    /\ ~(state.volumeData # 0 /\ state.segments = {} /\ preSegViewMode = "2d")

\* the "2D Slices" / "Hide" button
ToggleMPR ==
    /\ Overlay3D
    /\ state.metadata # NoMeta
    /\ state.segments # {}
    /\ Commit(state, preSegViewMode, ~showMPR)
    /\ UNCHANGED <<viewMode, net, nextScan, touched>>
    /\ UNCHANGED compVars

\* the 2D / 3D buttons of the pre-segmentation view
SetPreSegViewMode ==
    \E m \in {"2d", "3d"} :
        /\ state.scanId # 0
        /\ state.volumeData # 0
        /\ state.segments = {}
        /\ m # preSegViewMode
        /\ Commit(state, m, showMPR)
        /\ UNCHANGED <<viewMode, net, nextScan, touched>>
        /\ UNCHANGED compVars

\* the Raw / Segments buttons
SetViewMode ==
    \E m \in {"raw", "segmented"} :
        /\ Overlay3D
        /\ state.volumeData # 0
        /\ state.segments # {}
        /\ m # viewMode
        /\ viewMode' = m
        /\ UNCHANGED <<state, showMPR, preSegViewMode, mprSlices, views, net,
                       nextScan, touched>>
        /\ UNCHANGED compVars

\* a slice slider moves: setSliceIndex, then the fetch effect reports
SliderMove ==
    \E g \in Groups, a \in Axes :
        /\ views[g].mounted
        /\ \E n \in 0..MaxSliceIndex(state.metadata, a) :
            /\ n # views[g].idx[a]
            /\ views' = [views EXCEPT ![g].idx[a] = n,
                                      ![g].recentre = @ \ {a}]
            /\ mprSlices' = HandleSliceChange(mprSlices, state.metadata, a, n)
            /\ touched' = touched \cup {a}
        /\ UNCHANGED <<state, showMPR, viewMode, preSegViewMode, net, nextScan>>
        /\ UNCHANGED compVars

\* the render after the maxSliceIndex effect's setSliceIndex: the views
\* whose index changes fetch and report again
RecentreCalls(v, dimensions, i) ==
    IF AxisOrder[i] \in v.recentre
    THEN <<(<<AxisOrder[i], CentreIndex(dimensions, AxisOrder[i])>>)>>
    ELSE <<>>

Recentre ==
    \E g \in Groups :
        /\ views[g].mounted
        /\ views[g].recentre # {}
        /\ views' = [views EXCEPT
                ![g].idx = [a \in Axes |->
                              IF a \in views[g].recentre
                              THEN CentreIndex(state.metadata, a)
                              ELSE @[a]],
                ![g].recentre = {}]
        /\ mprSlices' = ApplyCalls(mprSlices, state.metadata,
                            RecentreCalls(views[g], state.metadata, 1)
                            \o RecentreCalls(views[g], state.metadata, 2)
                            \o RecentreCalls(views[g], state.metadata, 3))
        /\ UNCHANGED <<state, showMPR, viewMode, preSegViewMode, net, nextScan,
                       touched>>
        /\ UNCHANGED compVars

Next ==
    \/ SelectFile
    \/ UploadResponse
    \/ UploadFails
    \/ VolumeResponse
    \/ VolumeFails
    \/ Segment
    \/ SegmentResponse
    \/ SegmentFails
    \/ HandleToggleSegment
    \/ HandleSegmentClick
    \/ ShowAll
    \/ HideAll
    \/ HandleReset
    \/ ToggleMPR
    \/ SetPreSegViewMode
    \/ SetViewMode
    \/ SliderMove
    \/ Recentre

Spec == Init /\ [][Next]_vars

----------------------------------------------------------------------------
(* App and CBCTViewer: the adaptive view configuration of the 3D viewer *)

\* the scan area of App renders CBCTViewer unless the pre-segmentation 2D
\* views take its place
ViewerShown(s, mode) == s.scanId # 0 /\ ~PreSegShown(s, mode)

\* mprSlices={showMPR ? mprSlices : undefined}
ViewerMprSlices(mpr, slices) == IF mpr THEN slices ELSE UndefinedMpr

\* scanDimensionsKey, as the list it is joined from and split into
ScanDimensionsKey(slices) ==
    IF slices.defined THEN slices.dimensions ELSE <<128, 128, 128>>

\* const [depth, height, width] = scanDimensionsKey.split(',').map(Number)
ViewConfig(slices) ==
    LET key == ScanDimensionsKey(slices)
    IN GetAdaptiveViewConfig(ScanDimensions(key[3], key[2], key[1]))

----------------------------------------------------------------------------
(* The components on their own *)

InitSetIndex ==
    /\ AppInit
    /\ si \in SiInputs
    /\ sv = SvIdle
    /\ fetches = {}
    /\ win = WinIdle
    /\ stat = StatIdle
    /\ cfg = CfgIdle
    /\ mesh = MeshIdle
    /\ meas = MeasIdle
    /\ fu = FuIdle
    /\ wl = WlInitial

SpecSetIndex == InitSetIndex /\ [][SetIndexCall]_vars

InitSlice ==
    /\ AppInit
    /\ si = SiIdle
    /\ win = WinIdle
    /\ stat = StatIdle
    /\ cfg = CfgIdle
    /\ mesh = MeshIdle
    /\ meas = MeasIdle
    /\ fu = FuIdle
    /\ wl = WlInitial
    /\ \E a \in Axes, d \in DimChoices :
        /\ sv = SvMounted(a, d)
        /\ fetches = {[id |-> 1, index |-> InitialSliceIndex(d)]}

NextSlice ==
    \/ SvRecentre
    \/ SvSliderMove
    \/ SvResponse
    \/ SvResponseFails

SpecSlice == InitSlice /\ [][NextSlice]_vars

InitWindow ==
    /\ AppInit
    /\ si = SiIdle
    /\ sv = SvIdle
    /\ fetches = {}
    /\ win \in WinInputs
    /\ stat = StatIdle
    /\ cfg = CfgIdle
    /\ mesh = MeshIdle
    /\ meas = MeasIdle
    /\ fu = FuIdle
    /\ wl = WlInitial

SpecWindow == InitWindow /\ [][RenderPixel]_vars

InitStats ==
    /\ AppInit
    /\ si = SiIdle
    /\ sv = SvIdle
    /\ fetches = {}
    /\ win = WinIdle
    /\ stat \in StatInputs
    /\ cfg = CfgIdle
    /\ mesh = MeshIdle
    /\ meas = MeasIdle
    /\ fu = FuIdle
    /\ wl = WlInitial

SpecStats == InitStats /\ [][ComputeStats]_vars

InitConfig ==
    /\ AppInit
    /\ si = SiIdle
    /\ sv = SvIdle
    /\ fetches = {}
    /\ win = WinIdle
    /\ stat = StatIdle
    /\ cfg \in CfgInputs
    /\ mesh = MeshIdle
    /\ meas = MeasIdle
    /\ fu = FuIdle
    /\ wl = WlInitial

SpecConfig == InitConfig /\ [][ViewConfigCall]_vars

InitMesh ==
    /\ AppInit
    /\ si = SiIdle
    /\ sv = SvIdle
    /\ fetches = {}
    /\ win = WinIdle
    /\ stat = StatIdle
    /\ cfg = CfgIdle
    /\ mesh \in MeshInputs
    /\ meas = MeasIdle
    /\ fu = FuIdle
    /\ wl = WlInitial

NextMesh ==
    \/ RenderSegmentMesh
    \/ ChangeMeshQuality

SpecMesh == InitMesh /\ [][NextMesh]_vars

InitMeasure ==
    /\ AppInit
    /\ si = SiIdle
    /\ sv = SvIdle
    /\ fetches = {}
    /\ win = WinIdle
    /\ stat = StatIdle
    /\ cfg = CfgIdle
    /\ mesh = MeshIdle
    /\ meas \in MeasInputs
    /\ fu = FuIdle
    /\ wl = WlInitial

NextMeasure ==
    \/ ToolButton
    \/ AddSegmentVolume
    \/ ToggleSegmentSelection
    \/ CalculateDistanceMeasurement
    \/ CalculateAngleMeasurement

SpecMeasure == InitMeasure /\ [][NextMeasure]_vars

InitUpload ==
    /\ AppInit
    /\ si = SiIdle
    /\ sv = SvIdle
    /\ fetches = {}
    /\ win = WinIdle
    /\ stat = StatIdle
    /\ cfg = CfgIdle
    /\ mesh = MeshIdle
    /\ meas = MeasIdle
    /\ fu = FuIdle
    /\ wl = WlInitial

NextUpload ==
    \/ HandleDragEnter
    \/ HandleDragLeave
    \/ HandleDrop
    \/ HandleFileInput

SpecUpload == InitUpload /\ [][NextUpload]_vars

NextLevels ==
    \/ SetWindowCenter
    \/ SetWindowWidth
    \/ PresetDefault
    \/ PresetBone
    \/ PresetSoft

\* three slice views after their mount
SpecLevels == InitUpload /\ [][NextLevels]_vars

----------------------------------------------------------------------------
(* Properties *)

\* x <= y for finite JavaScript numbers
Leq(x, y) == x.kind = "fin" /\ y.kind = "fin" /\ x.num * y.den <= y.num * x.den

InSliceRange(dimensions, axis, index) ==
    0 <= index /\ index <= AxisSize(dimensions, axis) - 1

\* C1: a call of handleSliceChange(axis, index) leaves the two other axis
\* fields of the MPR position as they were: equal to the prior position's
\* fields, or, when there was no prior position, to the default centre
\* floor(size / 2) that stands for an unset field.
C1_OtherAxesKept ==
    si.called =>
        \A b \in Axes \ {si.axis} :
            /\ si.prev.defined => si.next[b] = si.prev[b]
            /\ (~si.prev.defined /\ si.metadata # NoMeta) =>
                   si.next[b] = AxisSize(si.metadata, b) \div 2
            /\ (~si.prev.defined /\ si.metadata = NoMeta) => ~si.next.defined

C1_Witness ==
    /\ si.called
    /\ si.prev.defined
    /\ si.metadata # NoMeta
    /\ si.index # si.prev[si.axis]
    /\ si.next[si.axis] = si.index

\* C2: once a scan is loaded, every slice index of the MPR position and
\* every index a mounted slice view holds (and has fetched and reported)
\* lies in [0, size - 1] of its axis.
C2_IndicesInRange ==
    (state.scanId # 0 /\ state.metadata # NoMeta) =>
        /\ mprSlices.defined =>
               \A a \in Axes : InSliceRange(state.metadata, a, mprSlices[a])
        /\ \A g \in Groups :
               views[g].mounted =>
                   \A a \in Axes :
                       InSliceRange(state.metadata, a, views[g].idx[a])

\* C3: every value handleSliceChange stores into an axis field of the MPR
\* position is clamped to [0, size - 1] of that axis: after any step, each
\* axis field that was written (the position became defined or the field
\* changed) is within the range of the dimensions stored with it.
C3_StoredIndexClamped ==
    [][\A a \in Axes :
         (mprSlices'.defined /\ (~mprSlices.defined \/ mprSlices'[a] # mprSlices[a]))
             => InSliceRange(mprSlices'.dimensions, a, mprSlices'[a])]_vars

\* C4: once a scan is loaded (scanId and metadata set) the MPR position is
\* defined, for that scan's dimensions, and every axis whose slider has not
\* moved since the load is at the centre floor(size / 2) of its axis.
C4_PositionDefinedAtCentre ==
    (state.scanId # 0 /\ state.metadata # NoMeta) =>
        /\ mprSlices.defined
        /\ mprSlices.dimensions = state.metadata
        /\ \A a \in Axes \ touched :
               mprSlices[a] = AxisSize(state.metadata, a) \div 2

\* C5: once every slice request of a view has resolved, the slice data it
\* displays is the data of the index requested last (its current
\* sliceIndex), whatever the order of the responses.
C5_LatestRequestShown ==
    (sv.mounted /\ fetches = {} /\ ~sv.recentre /\ sv.sliceData # NoSliceData)
        => sv.sliceData = sv.sliceIndex

\* C6: for every raw value, every center and every width > 0 the windowed
\* intensity is a number in [0, 255], and so is the byte stored for it.
C6_OutputInRange ==
    (win.called /\ win.windowWidth > 0) =>
        /\ Leq(Fin(0, 1), win.intensity)
        /\ Leq(win.intensity, Fin(255, 1))
        /\ win.byte \in 0..255

C6_Witness ==
    /\ win.called
    /\ win.windowWidth > 0
    /\ 2 * win.value > 2 * win.windowCenter + win.windowWidth
    /\ win.byte = 255

\* C7: for every center and every width > 0 the value v = center maps to
\* mid-gray: the intensity lies in [127, 128] and the stored byte is 127 or
\* 128.
C7_CenterIsMidGray ==
    (win.called /\ win.windowWidth > 0 /\ win.value = win.windowCenter) =>
        /\ Leq(Fin(127, 1), win.intensity)
        /\ Leq(win.intensity, Fin(128, 1))
        /\ win.byte \in {127, 128}

C7_Witness ==
    /\ win.called
    /\ win.windowWidth > 0
    /\ win.value = win.windowCenter
    /\ win.byte = 128

C9_NullWhenNoSamples ==
    (stat.called
        /\ (Len(stat.volumeData) = 0
              \/ Sampled(stat.volumeData, stat.dimensions) = {}))
        => stat.result.isNull

JsEq(x, y) == x.kind = "fin" /\ y.kind = "fin" /\ x.num * y.den = y.num * x.den

\* C11: for every dimension triple the camera distance bounds of the
\* returned configuration do not cross: minCameraDistance <
\* maxCameraDistance.
C11_LimitsNeverCross ==
    \A i \in DOMAIN cfg.log :
        JsLess(cfg.log[i].config.minCameraDistance,
               cfg.log[i].config.maxCameraDistance)

\* doubling moves max(dimensions) across 128, 256 or 512
ThresholdCrossed(dimensions) ==
    \E t \in {128, 256, 512} :
        LargestDim(dimensions) <= t /\ t < 2 * LargestDim(dimensions)

\* the calls i, j of the log where j's dimensions are twice i's
DoubledPairs ==
    {p \in (DOMAIN cfg.log) \X (DOMAIN cfg.log) :
        cfg.log[p[2]].dimensions = Doubled(cfg.log[p[1]].dimensions)}

\* C12 as stated: doubling all three dimensions doubles the camera distance
\* and doubles the grid size, and leaves the FOV unchanged unless the
\* doubling crosses one of the 128 / 256 / 512 thresholds.
C12_DoublingDoublesGrid ==
    \A p \in DoubledPairs :
        LET a == cfg.log[p[1]].config
            b == cfg.log[p[2]].config
        IN /\ \A k \in 1..3 :
                JsEq(b.cameraPosition[k], JsTimes(a.cameraPosition[k], 2))
           /\ b.gridSize = 2 * a.gridSize
           /\ ~ThresholdCrossed(cfg.log[p[1]].dimensions)
                  => b.cameraFOV = a.cameraFOV

\* C12: doubling all three dimensions doubles the camera distance, takes
\* the grid size g to 2g or 2g - 1 (the size is a ceiling), and leaves the
\* FOV unchanged unless the doubling crosses one of the thresholds.
C12_DoublingUpToCeiling ==
    \A p \in DoubledPairs :
        LET a == cfg.log[p[1]].config
            b == cfg.log[p[2]].config
        IN /\ \A k \in 1..3 :
                JsEq(b.cameraPosition[k], JsTimes(a.cameraPosition[k], 2))
           /\ b.gridSize \in {2 * a.gridSize - 1, 2 * a.gridSize}
           /\ ~ThresholdCrossed(cfg.log[p[1]].dimensions)
                  => b.cameraFOV = a.cameraFOV

C12_Witness ==
    \E p \in DoubledPairs :
        /\ LargestDim(cfg.log[p[1]].dimensions) > 0
        /\ ~ThresholdCrossed(cfg.log[p[1]].dimensions)
        /\ cfg.log[p[2]].config.gridSize
               = 2 * cfg.log[p[1]].config.gridSize - 1
        /\ cfg.log[p[2]].config.cameraFOV = cfg.log[p[1]].config.cameraFOV

\* C13: for degenerate dimensions (all three zero) the call returns the
\* configuration of the 128-reference case, the one of (128, 128, 128).
C13_DegenerateGivesReference ==
    \A i \in DOMAIN cfg.log :
        LargestDim(cfg.log[i].dimensions) = 0
            => cfg.log[i].config
                   = GetAdaptiveViewConfig(ScanDimensions(128, 128, 128))

C15_FinalOpacityIsProduct ==
    mesh.out.rendered =>
        JsEq(mesh.out.opacity,
             JsMul(IF mesh.segmentSettings.defined
                        /\ mesh.segmentSettings.hasOpacity
                   THEN mesh.segmentSettings.opacity ELSE Fin(1, 1),
                   IF mesh.renderingSettings.defined
                   THEN mesh.renderingSettings.globalOpacity ELSE Fin(1, 1)))

\* C16: for every preset (or none) and every smoothness in [0, 100] the
\* roughness the mesh is rendered with lies in [0.1, 0.9].
C16_RoughnessInRange ==
    (mesh.out.rendered
        /\ Smoothness(mesh.segmentSettings) \in 0..100) =>
        /\ Leq(Fin(1, 10), mesh.out.roughness)
        /\ Leq(mesh.out.roughness, Fin(9, 10))

C16_Witness ==
    /\ mesh.out.rendered
    /\ mesh.renderingSettings.defined
    /\ mesh.renderingSettings.preset = "bone"
    /\ mesh.segmentSettings.defined
    /\ mesh.segmentSettings.hasSmoothness
    /\ mesh.segmentSettings.smoothness = 0
    /\ JsEq(mesh.out.roughness, Fin(9, 10))

\* C17: the render after a change of the mesh quality differs from the
\* render before it in the polygon offset factor and units only: geometry
\* (positions, indices, normals, bounding box), opacity, roughness,
\* metalness, environment intensity, wireframe and flat shading are the
\* same.
C17_QualityChangesOffsetOnly ==
    mesh.prev.rendered =>
        mesh.out = [mesh.prev EXCEPT
                       !.polygonOffsetFactor = mesh.out.polygonOffsetFactor,
                       !.polygonOffsetUnits = mesh.out.polygonOffsetUnits]

C17_Witness ==
    /\ mesh.prev.rendered
    /\ Len(mesh.vertices) >= 3
    /\ mesh.out.polygonOffsetFactor # mesh.prev.polygonOffsetFactor
    /\ mesh.out.polygonOffsetUnits # mesh.prev.polygonOffsetUnits

\* C18: for a mesh with vertices and faces, every render leaves the
\* working geometry with a bounding box centred at (0, 0, 0) (min + max
\* is 0 on every axis), and leaves the vertex, face and normal arrays of
\* the mesh prop as they were.
C18_CentredCopy ==
    [][(mesh'.out.rendered /\ mesh.vertices # <<>> /\ mesh.faces # <<>>) =>
          /\ \A k \in 1..3 :
                JsEq(JsPlus(mesh'.out.geometry.boundingBox.min[k],
                            mesh'.out.geometry.boundingBox.max[k]),
                     Fin(0, 1))
          /\ mesh'.vertices = mesh.vertices
          /\ mesh'.faces = mesh.faces
          /\ mesh'.hasNormals = mesh.hasNormals
          /\ mesh'.normals = mesh.normals]_vars

C18_Witness ==
    /\ mesh.out.rendered
    /\ Len(mesh.vertices) >= 3
    /\ mesh.faces # <<>>
    /\ \E i \in DOMAIN mesh.vertices :
          mesh.out.geometry.position[i][1] # Fin(mesh.vertices[i][1], 1)
    /\ \A k \in 1..3 :
          JsEq(JsPlus(mesh.out.geometry.boundingBox.min[k],
                      mesh.out.geometry.boundingBox.max[k]),
               Fin(0, 1))

\* C19: every volume measurement of a segment is voxelCount x spacing.x x
\* spacing.y x spacing.z / 1000; for voxel_count = 100000 and spacing
\* (0.2, 0.2, 0.2) it is 0.8.
C19_VolumeFormula ==
    \A i \in DOMAIN meas.measurements :
        \A segment \in meas.segments :
            (meas.measurements[i].type = "volume"
                /\ meas.measurements[i].label[1] = segment.name) =>
                /\ Reduced(meas.measurements[i].value)
                     = Reduced(Fin(segment.voxel_count * meas.spacing[1].num
                                       * meas.spacing[2].num
                                       * meas.spacing[3].num,
                                   meas.spacing[1].den * meas.spacing[2].den
                                       * meas.spacing[3].den * 1000))
                /\ (segment.voxel_count = 100000
                        /\ meas.spacing = <<Fin(2, 10), Fin(2, 10), Fin(2, 10)>>)
                       => Reduced(meas.measurements[i].value) = Fin(4, 5)

C19_Witness ==
    /\ meas.spacing = <<Fin(2, 10), Fin(2, 10), Fin(2, 10)>>
    /\ \E i \in DOMAIN meas.measurements :
          /\ meas.measurements[i].type = "volume"
          /\ meas.measurements[i].label[1] = "teeth"
          /\ Reduced(meas.measurements[i].value) = Fin(4, 5)

\* C20: a step of handleReset (the scan id goes from set to unset) leaves
\* the session state at its initial value, the MPR position undefined and
\* the raw/segmented view mode at 'raw'.
C20_ResetRestoresInitial ==
    [][(state.scanId # 0 /\ state'.scanId = 0) =>
          /\ state' = InitialState
          /\ ~mprSlices'.defined
          /\ viewMode' = "raw"]_vars

\* C21: a drop or a file-input change whose file is larger than 500 MB does
\* not call onFileSelected; one whose file is at most 500 MB calls it with
\* that file, and the large-file warning is then set exactly when the file
\* is larger than 100 MB.
C21_SizeLimitAndWarning ==
    [][(fu'.events > fu.events /\ Len(fu'.files) > 0) =>
        LET file == fu'.files[1]
        IN IF file.size > 500 * BytesPerMB
           THEN fu'.calls = fu.calls /\ fu'.sizeWarning # LargeFileWarning
           ELSE /\ fu'.calls = Append(fu.calls, file)
                /\ (fu'.sizeWarning = LargeFileWarning
                        <=> file.size > 100 * BytesPerMB)
                /\ (fu'.sizeWarning = "" <=> file.size <= 100 * BytesPerMB)]_vars

C21_Witness ==
    /\ Len(fu.calls) = 1
    /\ fu.calls[1].size = 500 * BytesPerMB
    /\ fu.events = 2
    /\ Len(fu.files) = 1
    /\ fu.files[1].size = 500 * BytesPerMB + 1
    /\ fu.sizeWarning = TooLargeMessage

\* C25: in every state of the three slice views, reached from the initial
\* values by center and width slider moves and preset buttons, every view
\* has windowCenter > 0 and windowWidth > 0, and a step that changes one
\* view's windowing leaves the other two views' windowing unchanged.
C25_WindowPositiveAndIndependent ==
    /\ [](\A a \in Axes : wl[a].windowCenter > 0 /\ wl[a].windowWidth > 0)
    /\ [][\A a \in Axes : wl'[a] # wl[a] =>
            \A b \in Axes \ {a} : wl'[b] = wl[b]]_vars

\* C22: whenever a scan is loaded and the 3D viewer is shown, the adaptive
\* view configuration the viewer uses is the one derived from the loaded
\* scan's dimensions, with the MPR overlay on or off.
C22_ViewConfigFollowsScan ==
    (ViewerShown(state, preSegViewMode) /\ state.metadata # NoMeta) =>
        ViewConfig(ViewerMprSlices(showMPR, mprSlices))
            = GetAdaptiveViewConfig(
                ScanDimensions(state.metadata[3], state.metadata[2],
                               state.metadata[1]))

\* C23: each axis field of the MPR position has at most one writer: after
\* any sequence of upload, segment, toggle-MPR, reset and view-mode actions
\* no two mounted slice views report slice changes for the same axis, i.e.
\* the pre-segmentation group and the MPR panel are never mounted together.
C23_OneWriterPerAxis ==
    \A a \in Axes :
        Cardinality({g \in Groups : views[g].mounted}) <= 1

\* C24: when a slice request of a view fails, the view ends in a state that
\* is distinguishable from the one it is in while a request is pending: it
\* is not left showing the loading placeholder.
C24_FailureIsDistinguishable ==
    [][(fetches' \subseteq fetches /\ fetches' # fetches
            /\ sv'.sliceData = NoSliceData)
        => SliceDisplay(sv') # SliceDisplay(SvMounted(sv.axis, sv.dimensions))]_vars

\* C26: responses of requests made for an earlier scan never alter the
\* session: the volume data, the segments and the meshes in the state
\* always belong to the scan that scanId names.
C26_DataBelongsToScan ==
    /\ state.volumeData \in {0, state.scanId}
    /\ \A s \in state.segments : s.scan = state.scanId
    /\ \A m \in state.meshes : m.scan = state.scanId

\* the names of the segments in the state
CurrentNames == {s.name : s \in state.segments}

C28_DistanceFiniteAndSymmetric ==
    \A i \in DOMAIN meas.measurements :
        meas.measurements[i].type = "distance" =>
            LET m == meas.measurements[i]
                seg1 == FindSegment(meas.segments, m.label[1])
                seg2 == FindSegment(meas.segments, m.label[3])
            IN /\ m.value.kind = "fin"
               /\ Leq(Fin(0, 1), m.value.factor)
               /\ m.value = DistanceEstimate(seg2, seg1, meas.spacing)

\* the voxel count calculateAngleMeasurement works with: 1 stands in for a
\* count of 0 or one that is not given
CountOrOne(segment) ==
    IF segment.voxel_count = 0 THEN 1 ELSE segment.voxel_count

C30_SelectionAndToolDiscipline ==
    /\ [](/\ \A i, j \in DOMAIN meas.selectedSegments :
                meas.selectedSegments[i] = meas.selectedSegments[j] => i = j
          /\ meas.activeTool = "distance" => Len(meas.selectedSegments) <= 2
          /\ meas.activeTool = "angle" => Len(meas.selectedSegments) <= 3)
    /\ [][(meas'.activeTool # meas.activeTool /\ meas'.activeTool # NoTool)
            => meas'.selectedSegments = <<>>]_vars
    /\ [][(meas'.measurements # meas.measurements
             /\ meas'.measurements[Len(meas'.measurements)].type
                    \in {"distance", "angle"})
            => /\ Len(meas'.measurements) = Len(meas.measurements) + 1
               /\ SubSeq(meas'.measurements, 1, Len(meas.measurements))
                      = meas.measurements
               /\ meas'.selectedSegments = <<>>
               /\ meas'.activeTool = NoTool]_vars

C30_Witness ==
    /\ Len(meas.measurements) = 1
    /\ meas.measurements[1].type = "distance"
    /\ meas.measurements[1].label = <<"maxilla", "to", "airway">>
    /\ meas.selectedSegments = <<>>
    /\ meas.activeTool = NoTool

============================================================================
